---- MODULE Spec2Model ----
(***************************************************************************)
(* Model of the genshin-db-serve worker (src/src/index.ts): the language   *)
(* directory, parseURL, getGitHubURL and the fetch handler with its        *)
(* suspension points (fetch, arrayBuffer, gunzip, json).                   *)
(*                                                                         *)
(* Strings are TLA+ strings.  JavaScript's undefined and null are the      *)
(* sentinels Undefined and Null; every token of the model's alphabet is    *)
(* free of "#", which a URL path or query value cannot hold undecoded.     *)
(***************************************************************************)
EXTENDS Integers, Sequences, FiniteSets, TLC

VARIABLES
    pc,          \* position of the handler: start, fetch, arrayBuffer, gunzip, json, done
    request,     \* the inbound request: pathname, query parameters, content-type header
    resolved,    \* what parseURL did: its locals, its result or the error it threw
    gitHubURL,   \* the upstream URL built by getGitHubURL
    upstream,    \* how the upstream fetch completed: none, rejected, ok, notok
    caught,      \* the error caught by the try/catch around the relay step
    fetches,     \* number of upstream fetches issued
    decodes,     \* number of gunzip / json decoding steps started
    response,    \* the Response the handler returned
    unhandled    \* the exception that escaped the handler

vars == <<pc, request, resolved, gitHubURL, upstream, caught, fetches, decodes,
          response, unhandled>>

(***************************************************************************)
(* JavaScript values                                                       *)
(***************************************************************************)
Undefined == "#undefined"
Null == "#null"
\* obj[key] for a key found on Object.prototype: the member of that name
Inherited(key) == "#inherited:" \o key
IsInherited(v) == Len(v) > 11 /\ SubSeq(v, 1, 11) = "#inherited:"
InheritedKey(v) == SubSeq(v, 12, Len(v))

(***************************************************************************)
(* Bounds and input alphabets                                              *)
(***************************************************************************)
MaxSegs == 3

\* Raw path segments between slashes; "" gives doubled or trailing slashes.
SegTokens == {"", "English", "japanese", "artifacts", "all", "index",
              "constructor"}

\* "\\u212AO" is KELVIN SIGN + O (?lang=%E2%84%AAO)
LangParams == {Null, "", "FR", "Japanese", "\\u212AO"}
LanguageParams == {Null, "korean"}
BranchParams == {Null, "v4"}
ContentTypes == {Null, "text/html; charset=utf-8", "application/json"}

NetworkErrors == {"Network connection lost."}
BufferErrors == {"Body has already been used."}
GunzipErrors == {"incorrect header check", "unexpected end of file"}
JsonErrors == {"Unexpected end of JSON input"}
UpstreamDocs == {"docA", "docB"}

\* !value for the values getLanguage sees
Falsy(v) == v \in {Undefined, Null, ""}

\* `${v}` in a template literal, for the values a string variable can hold:
\* Object.prototype itself prints as an object, its methods as native
\* functions (constructor is the function named Object).
Str(v) ==
    IF v = Undefined THEN "undefined"
    ELSE IF v = Null THEN "null"
    ELSE IF IsInherited(v)
    THEN IF InheritedKey(v) = "__proto__" THEN "[object Object]"
         ELSE "function "
              \o (IF InheritedKey(v) = "constructor" THEN "Object"
                  ELSE InheritedKey(v))
              \o "() { [native code] }"
    ELSE v

\* a ?? b
Coalesce(a, b) == IF a \in {Undefined, Null} THEN b ELSE a

(***************************************************************************)
(* Strings.  A string of the model is printable ASCII text; a UTF-16 code  *)
(* unit outside printable ASCII is written as the six characters \uXXXX    *)
(* (upper-case hexadecimal), as in a JavaScript string literal: KELVIN     *)
(* SIGN followed by O is the TLA+ literal "\\u212AO".  A literal backslash  *)
(* followed by u and four hex digits is outside the model's alphabet.      *)
(***************************************************************************)
\* printable ASCII: U+0020 .. U+005F and U+0061 .. U+007E (U+0060 cannot be
\* written in a TLA+ string and is carried as \u0060)
AsciiLow ==
    " !\"#$%&'()*+,-./0123456789:;<=>?@ABCDEFGHIJKLMNOPQRSTUVWXYZ[\\]^_"
AsciiHigh == "abcdefghijklmnopqrstuvwxyz{|}~"
HexDigits == "0123456789ABCDEF"

CharAt(s, i) == SubSeq(s, i, i)

\* the code unit of each printable ASCII character
CodeOfChar ==
    [c \in {CharAt(AsciiLow, i) : i \in 1..Len(AsciiLow)}
           \cup {CharAt(AsciiHigh, i) : i \in 1..Len(AsciiHigh)} |->
        IF \E i \in 1..Len(AsciiLow) : CharAt(AsciiLow, i) = c
        THEN 31 + CHOOSE i \in 1..Len(AsciiLow) : CharAt(AsciiLow, i) = c
        ELSE 96 + CHOOSE i \in 1..Len(AsciiHigh) : CharAt(AsciiHigh, i) = c]

HexValue ==
    [c \in {CharAt(HexDigits, i) : i \in 1..Len(HexDigits)} |->
        (CHOOSE i \in 1..Len(HexDigits) : CharAt(HexDigits, i) = c) - 1]

IsEscapeAt(s, i) ==
    /\ i + 5 <= Len(s)
    /\ SubSeq(s, i, i + 1) = "\\u"
    /\ \A k \in 2..5 : CharAt(s, i + k) \in DOMAIN HexValue

EscapeValue(s, i) ==
    HexValue[CharAt(s, i + 2)] * 4096 + HexValue[CharAt(s, i + 3)] * 256
    + HexValue[CharAt(s, i + 4)] * 16 + HexValue[CharAt(s, i + 5)]

\* the UTF-16 code units of a string
RECURSIVE CodeUnitsFrom(_, _)
CodeUnitsFrom(s, i) ==
    IF i > Len(s) THEN <<>>
    ELSE IF IsEscapeAt(s, i) THEN <<EscapeValue(s, i)>> \o CodeUnitsFrom(s, i + 6)
    ELSE <<CodeOfChar[CharAt(s, i)]>> \o CodeUnitsFrom(s, i + 1)

IsHighSurrogate(u) == u >= 55296 /\ u <= 56319
IsLowSurrogate(u) == u >= 56320 /\ u <= 57343

\* the code points of a sequence of code units (surrogate pairs combined)
RECURSIVE CodePointsFrom(_, _)
CodePointsFrom(u, i) ==
    IF i > Len(u) THEN <<>>
    ELSE IF i < Len(u) /\ IsHighSurrogate(u[i]) /\ IsLowSurrogate(u[i + 1])
    THEN <<65536 + (u[i] - 55296) * 1024 + (u[i + 1] - 56320)>>
         \o CodePointsFrom(u, i + 2)
    ELSE <<u[i]>> \o CodePointsFrom(u, i + 1)

\* Unicode 17.0 simple lowercase mappings above U+007F, as runs
\* <<first, last, step, delta>>: a code point first + k*step <= last maps to
\* itself + delta.  (U+0130 maps to two code points and is in LowerCodePoint.)
LowerRuns ==
    {
     <<192,214,1,32>>, <<216,222,1,32>>, <<256,302,2,1>>, <<306,310,2,1>>,
     <<313,327,2,1>>, <<330,374,2,1>>, <<376,376,1,-121>>, <<377,381,2,1>>,
     <<385,385,1,210>>, <<386,388,2,1>>, <<390,390,1,206>>, <<391,391,1,1>>,
     <<393,394,1,205>>, <<395,395,1,1>>, <<398,398,1,79>>, <<399,399,1,202>>,
     <<400,400,1,203>>, <<401,401,1,1>>, <<403,403,1,205>>,
     <<404,404,1,207>>, <<406,406,1,211>>, <<407,407,1,209>>,
     <<408,408,1,1>>, <<412,412,1,211>>, <<413,413,1,213>>,
     <<415,415,1,214>>, <<416,420,2,1>>, <<422,422,1,218>>, <<423,423,1,1>>,
     <<425,425,1,218>>, <<428,428,1,1>>, <<430,430,1,218>>, <<431,431,1,1>>,
     <<433,434,1,217>>, <<435,437,2,1>>, <<439,439,1,219>>, <<440,440,1,1>>,
     <<444,444,1,1>>, <<452,452,1,2>>, <<453,453,1,1>>, <<455,455,1,2>>,
     <<456,456,1,1>>, <<458,458,1,2>>, <<459,475,2,1>>, <<478,494,2,1>>,
     <<497,497,1,2>>, <<498,500,2,1>>, <<502,502,1,-97>>, <<503,503,1,-56>>,
     <<504,542,2,1>>, <<544,544,1,-130>>, <<546,562,2,1>>,
     <<570,570,1,10795>>, <<571,571,1,1>>, <<573,573,1,-163>>,
     <<574,574,1,10792>>, <<577,577,1,1>>, <<579,579,1,-195>>,
     <<580,580,1,69>>, <<581,581,1,71>>, <<582,590,2,1>>, <<880,882,2,1>>,
     <<886,886,1,1>>, <<895,895,1,116>>, <<902,902,1,38>>, <<904,906,1,37>>,
     <<908,908,1,64>>, <<910,911,1,63>>, <<913,929,1,32>>, <<931,939,1,32>>,
     <<975,975,1,8>>, <<984,1006,2,1>>, <<1012,1012,1,-60>>,
     <<1015,1015,1,1>>, <<1017,1017,1,-7>>, <<1018,1018,1,1>>,
     <<1021,1023,1,-130>>, <<1024,1039,1,80>>, <<1040,1071,1,32>>,
     <<1120,1152,2,1>>, <<1162,1214,2,1>>, <<1216,1216,1,15>>,
     <<1217,1229,2,1>>, <<1232,1326,2,1>>, <<1329,1366,1,48>>,
     <<4256,4293,1,7264>>, <<4295,4295,1,7264>>, <<4301,4301,1,7264>>,
     <<5024,5103,1,38864>>, <<5104,5109,1,8>>, <<7305,7305,1,1>>,
     <<7312,7354,1,-3008>>, <<7357,7359,1,-3008>>, <<7680,7828,2,1>>,
     <<7838,7838,1,-7615>>, <<7840,7934,2,1>>, <<7944,7951,1,-8>>,
     <<7960,7965,1,-8>>, <<7976,7983,1,-8>>, <<7992,7999,1,-8>>,
     <<8008,8013,1,-8>>, <<8025,8031,2,-8>>, <<8040,8047,1,-8>>,
     <<8072,8079,1,-8>>, <<8088,8095,1,-8>>, <<8104,8111,1,-8>>,
     <<8120,8121,1,-8>>, <<8122,8123,1,-74>>, <<8124,8124,1,-9>>,
     <<8136,8139,1,-86>>, <<8140,8140,1,-9>>, <<8152,8153,1,-8>>,
     <<8154,8155,1,-100>>, <<8168,8169,1,-8>>, <<8170,8171,1,-112>>,
     <<8172,8172,1,-7>>, <<8184,8185,1,-128>>, <<8186,8187,1,-126>>,
     <<8188,8188,1,-9>>, <<8486,8486,1,-7517>>, <<8490,8490,1,-8383>>,
     <<8491,8491,1,-8262>>, <<8498,8498,1,28>>, <<8544,8559,1,16>>,
     <<8579,8579,1,1>>, <<9398,9423,1,26>>, <<11264,11311,1,48>>,
     <<11360,11360,1,1>>, <<11362,11362,1,-10743>>, <<11363,11363,1,-3814>>,
     <<11364,11364,1,-10727>>, <<11367,11371,2,1>>, <<11373,11373,1,-10780>>,
     <<11374,11374,1,-10749>>, <<11375,11375,1,-10783>>,
     <<11376,11376,1,-10782>>, <<11378,11378,1,1>>, <<11381,11381,1,1>>,
     <<11390,11391,1,-10815>>, <<11392,11490,2,1>>, <<11499,11501,2,1>>,
     <<11506,11506,1,1>>, <<42560,42604,2,1>>, <<42624,42650,2,1>>,
     <<42786,42798,2,1>>, <<42802,42862,2,1>>, <<42873,42875,2,1>>,
     <<42877,42877,1,-35332>>, <<42878,42886,2,1>>, <<42891,42891,1,1>>,
     <<42893,42893,1,-42280>>, <<42896,42898,2,1>>, <<42902,42920,2,1>>,
     <<42922,42922,1,-42308>>, <<42923,42923,1,-42319>>,
     <<42924,42924,1,-42315>>, <<42925,42925,1,-42305>>,
     <<42926,42926,1,-42308>>, <<42928,42928,1,-42258>>,
     <<42929,42929,1,-42282>>, <<42930,42930,1,-42261>>,
     <<42931,42931,1,928>>, <<42932,42946,2,1>>, <<42948,42948,1,-48>>,
     <<42949,42949,1,-42307>>, <<42950,42950,1,-35384>>, <<42951,42953,2,1>>,
     <<42955,42955,1,-42343>>, <<42956,42970,2,1>>, <<42972,42972,1,-42561>>,
     <<42997,42997,1,1>>, <<65313,65338,1,32>>, <<66560,66599,1,40>>,
     <<66736,66771,1,40>>, <<66928,66938,1,39>>, <<66940,66954,1,39>>,
     <<66956,66962,1,39>>, <<66964,66965,1,39>>, <<68736,68786,1,64>>,
     <<68944,68965,1,32>>, <<71840,71871,1,32>>, <<93760,93791,1,32>>,
     <<93856,93880,1,27>>, <<125184,125217,1,34>>
    }

\* Unicode 17.0 Case_Ignorable code points, as ranges <<first, last>>
CaseIgnorableRanges ==
    {
     <<39,39>>, <<46,46>>, <<58,58>>, <<94,94>>, <<96,96>>, <<168,168>>,
     <<173,173>>, <<175,175>>, <<180,180>>, <<183,184>>, <<688,879>>,
     <<884,885>>, <<890,890>>, <<900,901>>, <<903,903>>, <<1155,1161>>,
     <<1369,1369>>, <<1375,1375>>, <<1425,1469>>, <<1471,1471>>,
     <<1473,1474>>, <<1476,1477>>, <<1479,1479>>, <<1524,1524>>,
     <<1536,1541>>, <<1552,1562>>, <<1564,1564>>, <<1600,1600>>,
     <<1611,1631>>, <<1648,1648>>, <<1750,1757>>, <<1759,1768>>,
     <<1770,1773>>, <<1807,1807>>, <<1809,1809>>, <<1840,1866>>,
     <<1958,1968>>, <<2027,2037>>, <<2042,2042>>, <<2045,2045>>,
     <<2070,2093>>, <<2137,2139>>, <<2184,2184>>, <<2192,2193>>,
     <<2199,2207>>, <<2249,2306>>, <<2362,2362>>, <<2364,2364>>,
     <<2369,2376>>, <<2381,2381>>, <<2385,2391>>, <<2402,2403>>,
     <<2417,2417>>, <<2433,2433>>, <<2492,2492>>, <<2497,2500>>,
     <<2509,2509>>, <<2530,2531>>, <<2558,2558>>, <<2561,2562>>,
     <<2620,2620>>, <<2625,2626>>, <<2631,2632>>, <<2635,2637>>,
     <<2641,2641>>, <<2672,2673>>, <<2677,2677>>, <<2689,2690>>,
     <<2748,2748>>, <<2753,2757>>, <<2759,2760>>, <<2765,2765>>,
     <<2786,2787>>, <<2810,2815>>, <<2817,2817>>, <<2876,2876>>,
     <<2879,2879>>, <<2881,2884>>, <<2893,2893>>, <<2901,2902>>,
     <<2914,2915>>, <<2946,2946>>, <<3008,3008>>, <<3021,3021>>,
     <<3072,3072>>, <<3076,3076>>, <<3132,3132>>, <<3134,3136>>,
     <<3142,3144>>, <<3146,3149>>, <<3157,3158>>, <<3170,3171>>,
     <<3201,3201>>, <<3260,3260>>, <<3263,3263>>, <<3270,3270>>,
     <<3276,3277>>, <<3298,3299>>, <<3328,3329>>, <<3387,3388>>,
     <<3393,3396>>, <<3405,3405>>, <<3426,3427>>, <<3457,3457>>,
     <<3530,3530>>, <<3538,3540>>, <<3542,3542>>, <<3633,3633>>,
     <<3636,3642>>, <<3654,3662>>, <<3761,3761>>, <<3764,3772>>,
     <<3782,3782>>, <<3784,3790>>, <<3864,3865>>, <<3893,3893>>,
     <<3895,3895>>, <<3897,3897>>, <<3953,3966>>, <<3968,3972>>,
     <<3974,3975>>, <<3981,3991>>, <<3993,4028>>, <<4038,4038>>,
     <<4141,4144>>, <<4146,4151>>, <<4153,4154>>, <<4157,4158>>,
     <<4184,4185>>, <<4190,4192>>, <<4209,4212>>, <<4226,4226>>,
     <<4229,4230>>, <<4237,4237>>, <<4253,4253>>, <<4348,4348>>,
     <<4957,4959>>, <<5906,5908>>, <<5938,5939>>, <<5970,5971>>,
     <<6002,6003>>, <<6068,6069>>, <<6071,6077>>, <<6086,6086>>,
     <<6089,6099>>, <<6103,6103>>, <<6109,6109>>, <<6155,6159>>,
     <<6211,6211>>, <<6277,6278>>, <<6313,6313>>, <<6432,6434>>,
     <<6439,6440>>, <<6450,6450>>, <<6457,6459>>, <<6679,6680>>,
     <<6683,6683>>, <<6742,6742>>, <<6744,6750>>, <<6752,6752>>,
     <<6754,6754>>, <<6757,6764>>, <<6771,6780>>, <<6783,6783>>,
     <<6823,6823>>, <<6832,6877>>, <<6880,6891>>, <<6912,6915>>,
     <<6964,6964>>, <<6966,6970>>, <<6972,6972>>, <<6978,6978>>,
     <<7019,7027>>, <<7040,7041>>, <<7074,7077>>, <<7080,7081>>,
     <<7083,7085>>, <<7142,7142>>, <<7144,7145>>, <<7149,7149>>,
     <<7151,7153>>, <<7212,7219>>, <<7222,7223>>, <<7288,7293>>,
     <<7376,7378>>, <<7380,7392>>, <<7394,7400>>, <<7405,7405>>,
     <<7412,7412>>, <<7416,7417>>, <<7468,7530>>, <<7544,7544>>,
     <<7579,7679>>, <<8125,8125>>, <<8127,8129>>, <<8141,8143>>,
     <<8157,8159>>, <<8173,8175>>, <<8189,8190>>, <<8203,8207>>,
     <<8216,8217>>, <<8228,8228>>, <<8231,8231>>, <<8234,8238>>,
     <<8288,8292>>, <<8294,8303>>, <<8305,8305>>, <<8319,8319>>,
     <<8336,8348>>, <<8400,8432>>, <<11388,11389>>, <<11503,11505>>,
     <<11631,11631>>, <<11647,11647>>, <<11744,11775>>, <<11823,11823>>,
     <<12293,12293>>, <<12330,12333>>, <<12337,12341>>, <<12347,12347>>,
     <<12441,12446>>, <<12540,12542>>, <<40981,40981>>, <<42232,42237>>,
     <<42508,42508>>, <<42607,42610>>, <<42612,42621>>, <<42623,42623>>,
     <<42652,42655>>, <<42736,42737>>, <<42752,42785>>, <<42864,42864>>,
     <<42888,42890>>, <<42993,42996>>, <<43000,43001>>, <<43010,43010>>,
     <<43014,43014>>, <<43019,43019>>, <<43045,43046>>, <<43052,43052>>,
     <<43204,43205>>, <<43232,43249>>, <<43263,43263>>, <<43302,43309>>,
     <<43335,43345>>, <<43392,43394>>, <<43443,43443>>, <<43446,43449>>,
     <<43452,43453>>, <<43471,43471>>, <<43493,43494>>, <<43561,43566>>,
     <<43569,43570>>, <<43573,43574>>, <<43587,43587>>, <<43596,43596>>,
     <<43632,43632>>, <<43644,43644>>, <<43696,43696>>, <<43698,43700>>,
     <<43703,43704>>, <<43710,43711>>, <<43713,43713>>, <<43741,43741>>,
     <<43756,43757>>, <<43763,43764>>, <<43766,43766>>, <<43867,43871>>,
     <<43881,43883>>, <<44005,44005>>, <<44008,44008>>, <<44013,44013>>,
     <<64286,64286>>, <<64434,64450>>, <<65024,65039>>, <<65043,65043>>,
     <<65056,65071>>, <<65106,65106>>, <<65109,65109>>, <<65279,65279>>,
     <<65287,65287>>, <<65294,65294>>, <<65306,65306>>, <<65342,65342>>,
     <<65344,65344>>, <<65392,65392>>, <<65438,65439>>, <<65507,65507>>,
     <<65529,65531>>, <<66045,66045>>, <<66272,66272>>, <<66422,66426>>,
     <<67456,67461>>, <<67463,67504>>, <<67506,67514>>, <<68097,68099>>,
     <<68101,68102>>, <<68108,68111>>, <<68152,68154>>, <<68159,68159>>,
     <<68325,68326>>, <<68900,68903>>, <<68942,68942>>, <<68969,68973>>,
     <<68975,68975>>, <<69291,69292>>, <<69317,69317>>, <<69370,69375>>,
     <<69446,69456>>, <<69506,69509>>, <<69633,69633>>, <<69688,69702>>,
     <<69744,69744>>, <<69747,69748>>, <<69759,69761>>, <<69811,69814>>,
     <<69817,69818>>, <<69821,69821>>, <<69826,69826>>, <<69837,69837>>,
     <<69888,69890>>, <<69927,69931>>, <<69933,69940>>, <<70003,70003>>,
     <<70016,70017>>, <<70070,70078>>, <<70089,70092>>, <<70095,70095>>,
     <<70191,70193>>, <<70196,70196>>, <<70198,70199>>, <<70206,70206>>,
     <<70209,70209>>, <<70367,70367>>, <<70371,70378>>, <<70400,70401>>,
     <<70459,70460>>, <<70464,70464>>, <<70502,70508>>, <<70512,70516>>,
     <<70587,70592>>, <<70606,70606>>, <<70608,70608>>, <<70610,70610>>,
     <<70625,70626>>, <<70712,70719>>, <<70722,70724>>, <<70726,70726>>,
     <<70750,70750>>, <<70835,70840>>, <<70842,70842>>, <<70847,70848>>,
     <<70850,70851>>, <<71090,71093>>, <<71100,71101>>, <<71103,71104>>,
     <<71132,71133>>, <<71219,71226>>, <<71229,71229>>, <<71231,71232>>,
     <<71339,71339>>, <<71341,71341>>, <<71344,71349>>, <<71351,71351>>,
     <<71453,71453>>, <<71455,71455>>, <<71458,71461>>, <<71463,71467>>,
     <<71727,71735>>, <<71737,71738>>, <<71995,71996>>, <<71998,71998>>,
     <<72003,72003>>, <<72148,72151>>, <<72154,72155>>, <<72160,72160>>,
     <<72193,72202>>, <<72243,72248>>, <<72251,72254>>, <<72263,72263>>,
     <<72273,72278>>, <<72281,72283>>, <<72330,72342>>, <<72344,72345>>,
     <<72544,72544>>, <<72546,72548>>, <<72550,72550>>, <<72752,72758>>,
     <<72760,72765>>, <<72767,72767>>, <<72850,72871>>, <<72874,72880>>,
     <<72882,72883>>, <<72885,72886>>, <<73009,73014>>, <<73018,73018>>,
     <<73020,73021>>, <<73023,73029>>, <<73031,73031>>, <<73104,73105>>,
     <<73109,73109>>, <<73111,73111>>, <<73177,73177>>, <<73459,73460>>,
     <<73472,73473>>, <<73526,73530>>, <<73536,73536>>, <<73538,73538>>,
     <<73562,73562>>, <<78896,78912>>, <<78919,78933>>, <<90398,90409>>,
     <<90413,90415>>, <<92912,92916>>, <<92976,92982>>, <<92992,92995>>,
     <<93504,93506>>, <<93547,93548>>, <<94031,94031>>, <<94095,94111>>,
     <<94176,94177>>, <<94179,94180>>, <<94194,94195>>, <<110576,110579>>,
     <<110581,110587>>, <<110589,110590>>, <<113821,113822>>,
     <<113824,113827>>, <<118528,118573>>, <<118576,118598>>,
     <<119143,119145>>, <<119155,119170>>, <<119173,119179>>,
     <<119210,119213>>, <<119362,119364>>, <<121344,121398>>,
     <<121403,121452>>, <<121461,121461>>, <<121476,121476>>,
     <<121499,121503>>, <<121505,121519>>, <<122880,122886>>,
     <<122888,122904>>, <<122907,122913>>, <<122915,122916>>,
     <<122918,122922>>, <<122928,122989>>, <<123023,123023>>,
     <<123184,123197>>, <<123566,123566>>, <<123628,123631>>,
     <<124139,124143>>, <<124398,124399>>, <<124643,124643>>,
     <<124646,124646>>, <<124654,124655>>, <<124661,124661>>,
     <<124671,124671>>, <<125136,125142>>, <<125252,125259>>,
     <<127995,127999>>, <<917505,917505>>, <<917536,917631>>,
     <<917760,917999>>
    }

\* Unicode 17.0 Cased code points that are not Case_Ignorable, as ranges
CasedRanges ==
    {
     <<65,90>>, <<97,122>>, <<170,170>>, <<181,181>>, <<186,186>>,
     <<192,214>>, <<216,246>>, <<248,442>>, <<444,447>>, <<452,659>>,
     <<662,687>>, <<880,883>>, <<886,887>>, <<891,893>>, <<895,895>>,
     <<902,902>>, <<904,906>>, <<908,908>>, <<910,929>>, <<931,1013>>,
     <<1015,1153>>, <<1162,1327>>, <<1329,1366>>, <<1376,1416>>,
     <<4256,4293>>, <<4295,4295>>, <<4301,4301>>, <<4304,4346>>,
     <<4349,4351>>, <<5024,5109>>, <<5112,5117>>, <<7296,7306>>,
     <<7312,7354>>, <<7357,7359>>, <<7424,7467>>, <<7531,7543>>,
     <<7545,7578>>, <<7680,7957>>, <<7960,7965>>, <<7968,8005>>,
     <<8008,8013>>, <<8016,8023>>, <<8025,8025>>, <<8027,8027>>,
     <<8029,8029>>, <<8031,8061>>, <<8064,8116>>, <<8118,8124>>,
     <<8126,8126>>, <<8130,8132>>, <<8134,8140>>, <<8144,8147>>,
     <<8150,8155>>, <<8160,8172>>, <<8178,8180>>, <<8182,8188>>,
     <<8450,8450>>, <<8455,8455>>, <<8458,8467>>, <<8469,8469>>,
     <<8473,8477>>, <<8484,8484>>, <<8486,8486>>, <<8488,8488>>,
     <<8490,8493>>, <<8495,8500>>, <<8505,8505>>, <<8508,8511>>,
     <<8517,8521>>, <<8526,8526>>, <<8544,8575>>, <<8579,8580>>,
     <<9398,9449>>, <<11264,11387>>, <<11390,11492>>, <<11499,11502>>,
     <<11506,11507>>, <<11520,11557>>, <<11559,11559>>, <<11565,11565>>,
     <<42560,42605>>, <<42624,42651>>, <<42786,42863>>, <<42865,42887>>,
     <<42891,42894>>, <<42896,42972>>, <<42997,42998>>, <<43002,43002>>,
     <<43824,43866>>, <<43872,43880>>, <<43888,43967>>, <<64256,64262>>,
     <<64275,64279>>, <<65313,65338>>, <<65345,65370>>, <<66560,66639>>,
     <<66736,66771>>, <<66776,66811>>, <<66928,66938>>, <<66940,66954>>,
     <<66956,66962>>, <<66964,66965>>, <<66967,66977>>, <<66979,66993>>,
     <<66995,67001>>, <<67003,67004>>, <<68736,68786>>, <<68800,68850>>,
     <<68944,68965>>, <<68976,68997>>, <<71840,71903>>, <<93760,93823>>,
     <<93856,93880>>, <<93883,93907>>, <<119808,119892>>, <<119894,119964>>,
     <<119966,119967>>, <<119970,119970>>, <<119973,119974>>,
     <<119977,119980>>, <<119982,119993>>, <<119995,119995>>,
     <<119997,120003>>, <<120005,120069>>, <<120071,120074>>,
     <<120077,120084>>, <<120086,120092>>, <<120094,120121>>,
     <<120123,120126>>, <<120128,120132>>, <<120134,120134>>,
     <<120138,120144>>, <<120146,120485>>, <<120488,120512>>,
     <<120514,120538>>, <<120540,120570>>, <<120572,120596>>,
     <<120598,120628>>, <<120630,120654>>, <<120656,120686>>,
     <<120688,120712>>, <<120714,120744>>, <<120746,120770>>,
     <<120772,120779>>, <<122624,122633>>, <<122635,122654>>,
     <<122661,122666>>, <<125184,125251>>, <<127280,127305>>,
     <<127312,127337>>, <<127344,127369>>
    }

InRun(cp, r) == cp >= r[1] /\ cp <= r[2] /\ (cp - r[1]) % r[3] = 0
InRange(cp, r) == cp >= r[1] /\ cp <= r[2]
IsCaseIgnorable(cp) == \E r \in CaseIgnorableRanges : InRange(cp, r)
IsCasedLetter(cp) == \E r \in CasedRanges : InRange(cp, r)

\* the lowercase mapping of one code point, out of context
LowerCodePoint(cp) ==
    IF cp <= 127 THEN (IF cp >= 65 /\ cp <= 90 THEN <<cp + 32>> ELSE <<cp>>)
    ELSE IF cp = 304 THEN <<105, 775>>
    ELSE IF \E r \in LowerRuns : InRun(cp, r)
    THEN <<cp + (CHOOSE r \in LowerRuns : InRun(cp, r))[4]>>
    ELSE <<cp>>

\* the Final_Sigma condition of the Unicode case algorithm at position k
FinalSigma(cps, k) ==
    /\ \E j \in 1..(k - 1) :
          /\ IsCasedLetter(cps[j])
          /\ \A m \in (j + 1)..(k - 1) : IsCaseIgnorable(cps[m])
    /\ ~\E j \in (k + 1)..Len(cps) :
          /\ IsCasedLetter(cps[j])
          /\ \A m \in (k + 1)..(j - 1) : IsCaseIgnorable(cps[m])

RECURSIVE LowerFrom(_, _)
LowerFrom(cps, k) ==
    IF k > Len(cps) THEN <<>>
    ELSE (IF cps[k] = 931
          THEN (IF FinalSigma(cps, k) THEN <<962>> ELSE <<963>>)
          ELSE LowerCodePoint(cps[k]))
         \o LowerFrom(cps, k + 1)

HexDigit(n) == CharAt(HexDigits, n + 1)

UnitString(u) ==
    IF u >= 32 /\ u <= 95 THEN CharAt(AsciiLow, u - 31)
    ELSE IF u >= 97 /\ u <= 126 THEN CharAt(AsciiHigh, u - 96)
    ELSE "\\u" \o HexDigit(u \div 4096) \o HexDigit((u \div 256) % 16)
         \o HexDigit((u \div 16) % 16) \o HexDigit(u % 16)

RECURSIVE StringFrom(_, _)
StringFrom(cps, k) ==
    IF k > Len(cps) THEN ""
    ELSE (IF cps[k] >= 65536
          THEN UnitString(55296 + ((cps[k] - 65536) \div 1024))
               \o UnitString(56320 + ((cps[k] - 65536) % 1024))
          ELSE UnitString(cps[k]))
         \o StringFrom(cps, k + 1)

\* String.prototype.toLowerCase
toLowerCase(s) ==
    StringFrom(LowerFrom(CodePointsFrom(CodeUnitsFrom(s, 1), 1), 1), 1)

\* s.includes(sub)
includes(s, sub) ==
    \E i \in 1..(Len(s) - Len(sub) + 1) : SubSeq(s, i, i + Len(sub) - 1) = sub

RECURSIVE SplitFrom(_, _, _, _)
SplitFrom(s, i, cur, acc) ==
    IF i > Len(s) THEN Append(acc, cur)
    ELSE IF CharAt(s, i) = "/" THEN SplitFrom(s, i + 1, "", Append(acc, cur))
    ELSE SplitFrom(s, i + 1, cur \o CharAt(s, i), acc)

\* pathname.split('/')
split(s) == SplitFrom(s, 1, "", <<>>)

\* array destructuring: a missing element is undefined
At(parts, i) == IF i <= Len(parts) THEN parts[i] ELSE Undefined

(***************************************************************************)
(* Language directory                                                      *)
(***************************************************************************)
languages ==
    [k \in {"chinesesimplified", "chinesetraditional", "english", "french",
            "german", "indonesian", "italian", "japanese", "korean",
            "portuguese", "russian", "spanish", "thai", "turkish",
            "vietnamese"} |->
        CASE k = "chinesesimplified" -> "ChineseSimplified"
          [] k = "chinesetraditional" -> "ChineseTraditional"
          [] k = "english" -> "English"
          [] k = "french" -> "French"
          [] k = "german" -> "German"
          [] k = "indonesian" -> "Indonesian"
          [] k = "italian" -> "Italian"
          [] k = "japanese" -> "Japanese"
          [] k = "korean" -> "Korean"
          [] k = "portuguese" -> "Portuguese"
          [] k = "russian" -> "Russian"
          [] k = "spanish" -> "Spanish"
          [] k = "thai" -> "Thai"
          [] k = "turkish" -> "Turkish"
          [] k = "vietnamese" -> "Vietnamese"]

localeMap ==
    [k \in {"chs", "cht", "zh-cn", "zh-tw", "de", "en", "es", "fr", "id", "it",
            "ja", "ko", "pt", "ru", "th", "tr", "vi", "jp", "kr"} |->
        CASE k = "chs" -> "chinesesimplified"
          [] k = "cht" -> "chinesetraditional"
          [] k = "zh-cn" -> "chinesesimplified"
          [] k = "zh-tw" -> "chinesetraditional"
          [] k = "de" -> "german"
          [] k = "en" -> "english"
          [] k = "es" -> "spanish"
          [] k = "fr" -> "french"
          [] k = "id" -> "indonesian"
          [] k = "it" -> "italian"
          [] k = "ja" -> "japanese"
          [] k = "ko" -> "korean"
          [] k = "pt" -> "portuguese"
          [] k = "ru" -> "russian"
          [] k = "th" -> "thai"
          [] k = "tr" -> "turkish"
          [] k = "vi" -> "vietnamese"
          [] k = "jp" -> "japanese"
          [] k = "kr" -> "korean"]

\* Object.keys(languages)
lowercaseLanguages == DOMAIN languages

\* property names every object literal inherits from Object.prototype
ObjectPrototypeKeys ==
    {"constructor", "__proto__", "hasOwnProperty", "isPrototypeOf",
     "propertyIsEnumerable", "toLocaleString", "toString", "valueOf",
     "__defineGetter__", "__defineSetter__", "__lookupGetter__",
     "__lookupSetter__"}

\* localeMap[key]: an own property, else an inherited one, else undefined
localeMapGet(key) ==
    IF key \in DOMAIN localeMap THEN localeMap[key]
    ELSE IF key \in ObjectPrototypeKeys THEN Inherited(key)
    ELSE Undefined

getLanguage(value) ==
    IF Falsy(value) THEN Undefined
    ELSE LET lowercaseVal == toLowerCase(value) IN
         IF lowercaseVal \in lowercaseLanguages THEN value
         ELSE IF ~Falsy(localeMapGet(lowercaseVal)) THEN localeMapGet(lowercaseVal)
         ELSE Undefined

(***************************************************************************)
(* parseURL                                                                *)
(***************************************************************************)
\* new InvalidURLError(message): message and name are own properties
InvalidURLError(message) ==
    [class |-> "InvalidURLError", name |-> "InvalidURLError", message |-> message]
\* nothing thrown
NoError == [name |-> "", message |-> ""]
NoParsed == [language |-> Undefined, category |-> Undefined, id |-> Undefined,
             branch |-> Undefined]
NoLocals == [first |-> Undefined, second |-> Undefined, third |-> Undefined,
             queryLang |-> Undefined, maybeLanguage |-> Undefined,
             maybeQueryLang |-> Undefined, language |-> Undefined]
NotResolved == [ran |-> FALSE, threw |-> FALSE, error |-> NoError,
                value |-> NoParsed, locals |-> NoLocals]

\* url carries what new URL(url) exposes: pathname and the three query
\* parameters searchParams.get returns (Null when the parameter is absent).
parseURL(url) ==
    LET parts == SelectSeq(split(url.pathname), LAMBDA part : part # "")
        first == At(parts, 1)
        second == At(parts, 2)
        third == At(parts, 3)
        queryLang == Coalesce(url.lang, url.language)
        branch == Coalesce(url.branch, "main")
        maybeLanguage == getLanguage(first)
        isLang == ~Falsy(maybeLanguage)
        category == IF isLang THEN second ELSE first
        id == Coalesce(IF isLang THEN third ELSE second, "index")
        maybeQueryLang == getLanguage(queryLang)
        language == IF ~Falsy(maybeQueryLang) THEN maybeQueryLang
                    ELSE IF isLang THEN maybeLanguage
                    ELSE "english"
        locals == [first |-> first, second |-> second, third |-> third,
                   queryLang |-> queryLang, maybeLanguage |-> maybeLanguage,
                   maybeQueryLang |-> maybeQueryLang, language |-> language]
    IN  IF first = Undefined
        THEN [ran |-> TRUE, threw |-> TRUE,
              error |-> InvalidURLError("Invalid URL Format"),
              value |-> NoParsed, locals |-> NoLocals]
        ELSE IF language \notin lowercaseLanguages
        THEN [ran |-> TRUE, threw |-> TRUE,
              error |-> InvalidURLError("Invalid Language"),
              value |-> NoParsed, locals |-> locals]
        ELSE [ran |-> TRUE, threw |-> FALSE, error |-> NoError,
              value |-> [language |-> language, category |-> category,
                         id |-> id, branch |-> branch],
              locals |-> locals]

(***************************************************************************)
(* getGitHubURL                                                            *)
(***************************************************************************)
DistBase == "https://raw.githubusercontent.com/theBowja/genshin-db-dist/refs/heads/"
DataBase == "https://raw.githubusercontent.com/theBowja/genshin-db/refs/heads/"

\* languages[language]: an own property, else an inherited one, else undefined
languagesGet(key) ==
    IF key \in DOMAIN languages THEN languages[key]
    ELSE IF key \in ObjectPrototypeKeys THEN Inherited(key)
    ELSE Undefined

\* getGitHubURL with the display form used in the bulk-archive name as well
getGitHubURL_DisplayFormInBulk(parsed) ==
    IF parsed.id = "all"
    THEN DistBase \o Str(parsed.branch) \o "/data/gzips/"
         \o Str(languagesGet(parsed.language))
         \o "-" \o Str(parsed.category) \o ".min.json.gzip"
    ELSE IF parsed.id = "index"
    THEN DataBase \o Str(parsed.branch) \o "/src/data/index/"
         \o Str(languagesGet(parsed.language)) \o "/" \o Str(parsed.category) \o ".json"
    ELSE DataBase \o Str(parsed.branch) \o "/src/data/"
         \o Str(languagesGet(parsed.language)) \o "/" \o Str(parsed.category)
         \o "/" \o Str(parsed.id) \o ".json"


getGitHubURL(parsed) ==
    IF parsed.id = "all"
    THEN DistBase \o Str(parsed.branch) \o "/data/gzips/" \o Str(parsed.language)
         \o "-" \o Str(parsed.category) \o ".min.json.gzip"
    ELSE IF parsed.id = "index"
    THEN DataBase \o Str(parsed.branch) \o "/src/data/index/"
         \o Str(languagesGet(parsed.language)) \o "/" \o Str(parsed.category) \o ".json"
    ELSE DataBase \o Str(parsed.branch) \o "/src/data/"
         \o Str(languagesGet(parsed.language)) \o "/" \o Str(parsed.category)
         \o "/" \o Str(parsed.id) \o ".json"

(***************************************************************************)
(* Responses                                                               *)
(***************************************************************************)
\* A Response: status, Content-Type, and the body as the code builds it:
\* kind "text" (a string literal, in text), "json2" (JSON.stringify(x, null, 2)
\* of the document data, or of {error, help}), "bytes" (the buffer data).
Resp(status, contentType, kind, text, error, help, data) ==
    [status |-> status, contentType |-> contentType, kind |-> kind,
     text |-> text, error |-> error, help |-> help, data |-> data]

NoResponse == Resp(0, "", "", "", "", "", "")

headers == "application/json"
\* Content-Type the runtime gives a Response built from a string with no headers
TextPlain == "text/plain;charset=UTF-8"

\* JavaScript values that can be thrown.  A primitive is itself: a string (or
\* the undefined / null sentinel), an integer, a boolean.  An object is a
\* record of its own properties; the object with no properties is <<>>, and
\* a non-empty tuple is an array.  An object made by `new C(message)` for an
\* error class C also carries class |-> "C", which is its prototype chain and
\* not a property.  Tag is the first character of the value's printed form.
Tag(v) == SubSeq(ToString(v), 1, 1)
IsRecord(v) == Tag(v) = "["
IsTuple(v) == Tag(v) = "<"
IsObject(v) == IsRecord(v) \/ IsTuple(v)
IsString(v) == Tag(v) = "\""
IsBoolean(v) == Tag(v) \in {"T", "F"}

\* new C(message) for a built-in error class: message is the only own property
NewError(class, message) == [class |-> class, message |-> message]

\* v was made by an error class (Error.prototype is on its chain)
IsErrorInstance(v) == IsRecord(v) /\ "class" \in DOMAIN v

\* v instanceof C, for a class C without subclasses
instanceof(v, class) == IsErrorInstance(v) /\ v.class = class

\* typeof v
typeof(v) ==
    IF IsObject(v) THEN "object"
    ELSE IF IsBoolean(v) THEN "boolean"
    ELSE IF ~IsString(v) THEN "number"
    ELSE IF v = Undefined THEN "undefined"
    ELSE IF v = Null THEN "object"
    ELSE IF IsInherited(v)
    THEN IF InheritedKey(v) = "__proto__" THEN "object" ELSE "function"
    ELSE "string"

\* the truthiness test of `err && ...`
Truthy(v) ==
    IF IsObject(v) THEN TRUE
    ELSE IF IsBoolean(v) THEN v
    ELSE IF ~IsString(v) THEN v # 0
    ELSE ~Falsy(v)

\* Object.hasOwn(v, key)
HasOwn(key, v) == IsRecord(v) /\ key # "class" /\ key \in DOMAIN v

\* property names an error instance finds on Error.prototype
ErrorPrototypeKeys == {"name", "message", "toString"}

\* key in v: an own property or one found on the prototype chain
HasProperty(key, v) ==
    \/ HasOwn(key, v)
    \/ IsErrorInstance(v) /\ key \in ErrorPrototypeKeys
    \/ /\ IsObject(v) \/ (IsString(v) /\ IsInherited(v))
       /\ key \in ObjectPrototypeKeys

\* C.prototype.name: InvalidURLError.prototype has none of its own and
\* inherits Error.prototype.name
PrototypeName(class) == IF class = "InvalidURLError" THEN "Error" ELSE class

\* v[key] for an object v
Get(v, key) ==
    IF HasOwn(key, v) THEN v[key]
    ELSE IF IsErrorInstance(v) /\ key = "name" THEN PrototypeName(v.class)
    ELSE IF IsErrorInstance(v) /\ key = "message" THEN ""
    ELSE IF key \in ObjectPrototypeKeys THEN Inherited(key)
    ELSE Undefined

\* String(v).  Error.prototype.toString takes name (undefined reads as
\* "Error") and message (undefined reads as ""), and joins them with ": "
\* unless one is empty; Array.prototype.toString joins the elements with ","
\* and prints null and undefined as nothing; any other object prints as
\* "[object Object]".
RECURSIVE String(_)
RECURSIVE JoinFrom(_, _)
JoinFrom(arr, i) ==
    LET e == arr[i]
        s == IF IsString(e) /\ e \in {Undefined, Null} THEN "" ELSE String(e)
    IN  IF i = Len(arr) THEN s ELSE s \o "," \o JoinFrom(arr, i + 1)

String(v) ==
    IF IsErrorInstance(v)
    THEN LET n == Get(v, "name")
             m == Get(v, "message")
             name == IF IsString(n) /\ n = Undefined THEN "Error" ELSE String(n)
             msg == IF IsString(m) /\ m = Undefined THEN "" ELSE String(m)
         IN  IF name = "" THEN msg
             ELSE IF msg = "" THEN name
             ELSE name \o ": " \o msg
    ELSE IF IsRecord(v) THEN "[object Object]"
    ELSE IF IsTuple(v)
    THEN IF Len(v) = 0 THEN "[object Object]" ELSE JoinFrom(v, 1)
    ELSE IF IsBoolean(v) THEN (IF v THEN "true" ELSE "false")
    ELSE IF ~IsString(v) THEN ToString(v)
    ELSE Str(v)

\* getErrorMessage as String(err): the error's name is prefixed to the message
getErrorMessage_StringOfError(err) == String(err)


getErrorMessage(err) ==
    String(IF Truthy(err) /\ typeof(err) = "object" /\ HasProperty("message", err)
           THEN Get(err, "message")
           ELSE err)

\* HelpResponse that ignores the content-type header
HelpResponse_AlwaysJson(contentType) ==
    Resp(200, headers, "json2", "", "", "", "notFoundData")


HelpResponse(contentType) ==
    IF ~Falsy(contentType) /\ includes(contentType, "/html")
    THEN Resp(200, "text/html", "text", "helpHtml", "", "", "")
    ELSE Resp(200, headers, "json2", "", "", "", "notFoundData")

\* NotFoundResponse with the bulk path's message copied from the other path
NotFoundResponse_SameBody(id) ==
    Resp(404, TextPlain, "text", "File not found", "", "", "")


NotFoundResponse(id) ==
    IF id = "all"
    THEN Resp(404, TextPlain, "text", "Category name not found", "", "", "")
    ELSE Resp(404, TextPlain, "text", "File not found", "", "", "")

\* the catch blocks of the handler
ErrorResponse(err) ==
    IF instanceof(err, "InvalidURLError")
    THEN Resp(400, headers, "json2", "", "Error: " \o String(Get(err, "message")),
              "notFoundData", "")
    ELSE Resp(500, headers, "json2", "", "Error: " \o getErrorMessage(err),
              "notFoundData", "")

(***************************************************************************)
(* The fetch handler                                                       *)
(***************************************************************************)
RECURSIVE JoinSegs(_)
JoinSegs(s) ==
    IF s = <<>> THEN ""
    ELSE IF Len(s) = 1 THEN s[1]
    ELSE s[1] \o "/" \o JoinSegs(Tail(s))

Pathnames ==
    {"/" \o JoinSegs(s) : s \in UNION {[1..n -> SegTokens] : n \in 0..MaxSegs}}

Requests ==
    [pathname : Pathnames, lang : LangParams, language : LanguageParams,
     branch : BranchParams, contentType : ContentTypes]

Init ==
    /\ pc = "start"
    /\ request \in Requests
    /\ resolved = NotResolved
    /\ gitHubURL = ""
    /\ upstream = "none"
    /\ caught = NoError
    /\ fetches = 0
    /\ decodes = 0
    /\ response = NoResponse
    /\ unhandled = NoError

IsRoot == request.pathname = "/" \/ request.pathname = ""

\* lines 272-280: the root path is answered with the help payload
ServeHelp ==
    /\ pc = "start"
    /\ IsRoot
    /\ response' = HelpResponse(request.contentType)
    /\ pc' = "done"
    /\ UNCHANGED <<request, resolved, gitHubURL, upstream, caught, fetches,
                   decodes, unhandled>>

\* line 283: parseURL throws; the call is outside every try block
ResolveThrows ==
    /\ pc = "start"
    /\ ~IsRoot
    /\ LET r == parseURL(request) IN
        /\ r.threw
        /\ resolved' = r
        /\ unhandled' = r.error
    /\ pc' = "done"
    /\ UNCHANGED <<request, gitHubURL, upstream, caught, fetches, decodes,
                   response>>

\* lines 283-288 / 313: resolve, build the URL, issue the fetch
IssueFetch ==
    /\ pc = "start"
    /\ ~IsRoot
    /\ LET r == parseURL(request) IN
        /\ ~r.threw
        /\ resolved' = r
        /\ gitHubURL' = getGitHubURL(r.value)
    /\ fetches' = fetches + 1
    /\ pc' = "fetch"
    /\ UNCHANGED <<request, upstream, caught, decodes, response, unhandled>>

\* FetchRejects that issues the fetch once more after the first rejection
FetchRejects_RetryOnce ==
    /\ pc = "fetch"
    /\ IF fetches < 2
       THEN /\ fetches' = fetches + 1
            /\ UNCHANGED <<pc, upstream, caught, response>>
       ELSE /\ \E m \in NetworkErrors :
                /\ caught' = NewError("TypeError", m)
                /\ response' = ErrorResponse(NewError("TypeError", m))
            /\ upstream' = "rejected"
            /\ pc' = "done"
            /\ UNCHANGED fetches
    /\ UNCHANGED <<request, resolved, gitHubURL, decodes, unhandled>>

\* the fetch promise rejects (network error)
FetchRejects ==
    /\ pc = "fetch"
    /\ \E m \in NetworkErrors :
        /\ caught' = NewError("TypeError", m)
        /\ response' = ErrorResponse(NewError("TypeError", m))
    /\ upstream' = "rejected"
    /\ pc' = "done"
    /\ UNCHANGED <<request, resolved, gitHubURL, fetches, decodes, unhandled>>

\* lines 290-292, 315-317: !response.ok
FetchNotOk ==
    /\ pc = "fetch"
    /\ upstream' = "notok"
    /\ response' = NotFoundResponse(resolved.value.id)
    /\ pc' = "done"
    /\ UNCHANGED <<request, resolved, gitHubURL, caught, fetches, decodes,
                   unhandled>>

\* line 294: response.ok on the bulk path, await response.arrayBuffer()
FetchOkBulk ==
    /\ pc = "fetch"
    /\ resolved.value.id = "all"
    /\ upstream' = "ok"
    /\ pc' = "arrayBuffer"
    /\ UNCHANGED <<request, resolved, gitHubURL, caught, fetches, decodes,
                   response, unhandled>>

\* line 295: the body was read, gunzip starts
ArrayBufferOk ==
    /\ pc = "arrayBuffer"
    /\ decodes' = decodes + 1
    /\ pc' = "gunzip"
    /\ UNCHANGED <<request, resolved, gitHubURL, upstream, caught, fetches,
                   response, unhandled>>

\* reading the body fails
ArrayBufferRejects ==
    /\ pc = "arrayBuffer"
    /\ \E m \in BufferErrors :
        /\ caught' = NewError("TypeError", m)
        /\ response' = ErrorResponse(NewError("TypeError", m))
    /\ pc' = "done"
    /\ UNCHANGED <<request, resolved, gitHubURL, upstream, fetches, decodes,
                   unhandled>>

\* lines 297-299: the decompressed bytes are returned
GunzipOk ==
    /\ pc = "gunzip"
    /\ \E d \in UpstreamDocs :
        response' = Resp(200, headers, "bytes", "", "", "", d)
    /\ pc' = "done"
    /\ UNCHANGED <<request, resolved, gitHubURL, upstream, caught, fetches,
                   decodes, unhandled>>

\* gunzip rejects on malformed input
GunzipFails ==
    /\ pc = "gunzip"
    /\ \E m \in GunzipErrors :
        /\ caught' = NewError("Error", m)
        /\ response' = ErrorResponse(NewError("Error", m))
    /\ pc' = "done"
    /\ UNCHANGED <<request, resolved, gitHubURL, upstream, fetches, decodes,
                   unhandled>>

\* line 319: response.ok on the non-bulk path, await response.json()
FetchOkJson ==
    /\ pc = "fetch"
    /\ resolved.value.id # "all"
    /\ upstream' = "ok"
    /\ decodes' = decodes + 1
    /\ pc' = "json"
    /\ UNCHANGED <<request, resolved, gitHubURL, caught, fetches, response,
                   unhandled>>

\* line 321: the parsed document is re-serialised
JsonOk ==
    /\ pc = "json"
    /\ \E d \in UpstreamDocs :
        response' = Resp(200, headers, "json2", "", "", "", d)
    /\ pc' = "done"
    /\ UNCHANGED <<request, resolved, gitHubURL, upstream, caught, fetches,
                   decodes, unhandled>>

\* the upstream body is not valid JSON
JsonFails ==
    /\ pc = "json"
    /\ \E m \in JsonErrors :
        /\ caught' = NewError("SyntaxError", m)
        /\ response' = ErrorResponse(NewError("SyntaxError", m))
    /\ pc' = "done"
    /\ UNCHANGED <<request, resolved, gitHubURL, upstream, fetches, decodes,
                   unhandled>>

Next ==
    \/ ServeHelp
    \/ ResolveThrows
    \/ IssueFetch
    \/ FetchRejects
    \/ FetchNotOk
    \/ FetchOkBulk
    \/ ArrayBufferOk
    \/ ArrayBufferRejects
    \/ GunzipOk
    \/ GunzipFails
    \/ FetchOkJson
    \/ JsonOk
    \/ JsonFails

Spec == Init /\ [][Next]_vars

TypeOK ==
    /\ pc \in {"start", "fetch", "arrayBuffer", "gunzip", "json", "done"}
    /\ upstream \in {"none", "rejected", "ok", "notok"}
    /\ fetches \in Nat
    /\ decodes \in Nat

(***************************************************************************)
(* Claims                                                                  *)
(***************************************************************************)
\* the non-empty path segments of the request
Segs == SelectSeq(split(request.pathname), LAMBDA part : part # "")

\* Canonicalization as the Language Directory defines it: the lowercased
\* token when it is a language key, the aliased key when it is a locale
\* alias, no value otherwise.
CanonicalKey(token) ==
    IF Falsy(token) THEN Undefined
    ELSE LET l == toLowerCase(token) IN
         IF l \in DOMAIN languages THEN l
         ELSE IF l \in DOMAIN localeMap THEN localeMap[l]
         ELSE Undefined

\* the query value the override step reads: lang if present, else language
QueryLangParam == IF request.lang # Null THEN request.lang ELSE request.language

\* category and id as the path step assigns them
PathCategory ==
    IF CanonicalKey(At(Segs, 1)) # Undefined THEN At(Segs, 2) ELSE At(Segs, 1)
PathId ==
    Coalesce(IF CanonicalKey(At(Segs, 1)) # Undefined THEN At(Segs, 3)
             ELSE At(Segs, 2), "index")
PathLanguage ==
    IF CanonicalKey(At(Segs, 1)) # Undefined THEN CanonicalKey(At(Segs, 1))
    ELSE "english"

Resolved == resolved.ran /\ ~resolved.threw

\* C1: an InvalidURLError raised by parseURL is caught by the handler and
\* rendered as a 400 response with body {error: 'Error: <message>', help};
\* it never escapes the handler.
C1_InvalidURLErrorRendered ==
    (pc = "done" /\ resolved.ran /\ resolved.threw) =>
        /\ unhandled = NoError
        /\ response = Resp(400, headers, "json2", "",
                           "Error: " \o resolved.error.message, "notFoundData", "")

\* C2: with no language query parameter and at least one non-empty segment,
\* parseURL succeeds with language/category/id taken from the first three
\* segments: a first segment that canonicalizes gives (its canonical key,
\* second, third), otherwise (english, first, second); an absent id is index.
C2_PathResolution ==
    (resolved.ran /\ request.lang = Null /\ request.language = Null
        /\ Len(Segs) >= 1) =>
        /\ ~resolved.threw
        /\ resolved.value.language = PathLanguage
        /\ resolved.value.category = PathCategory
        /\ resolved.value.id = PathId

\* C3: a query language (lang, else language) that canonicalizes replaces
\* the path-derived language and leaves category, id and branch as the path
\* and branch parameter give them; /C/I?lang=L resolves as /L/C/I does.
C3_QueryOverride ==
    (resolved.ran /\ Len(Segs) >= 1 /\ CanonicalKey(QueryLangParam) # Undefined) =>
        /\ ~resolved.threw
        /\ resolved.value.language = CanonicalKey(QueryLangParam)
        /\ resolved.value.category = PathCategory
        /\ resolved.value.id = PathId
        /\ resolved.value.branch = Coalesce(request.branch, "main")
        /\ CanonicalKey(At(Segs, 1)) = Undefined =>
              parseURL([request EXCEPT
                            !.pathname = "/" \o QueryLangParam \o request.pathname,
                            !.lang = Null, !.language = Null]).value = resolved.value

\* C4: getLanguage returns the lowercase canonical key for every spelling of
\* a language key or locale alias, and no value for any other token.
C4_CanonicalLanguage ==
    resolved.ran =>
        /\ resolved.locals.maybeLanguage = CanonicalKey(resolved.locals.first)
        /\ resolved.locals.maybeQueryLang = CanonicalKey(resolved.locals.queryLang)

\* C5: the upstream URL has one of three shapes chosen by id alone: the
\* bulk archive with the lowercase language key for all, the index file
\* with the display form for index, the record file with the display form
\* for any other id.
C5_UpstreamURLShape ==
    (Resolved /\ pc # "start") =>
        LET p == resolved.value IN
        /\ p.language \in DOMAIN languages
        /\ p.id = "all" =>
              gitHubURL = DistBase \o p.branch \o "/data/gzips/" \o p.language
                          \o "-" \o Str(p.category) \o ".min.json.gzip"
        /\ p.id = "index" =>
              gitHubURL = DataBase \o p.branch \o "/src/data/index/"
                          \o languages[p.language] \o "/" \o Str(p.category)
                          \o ".json"
        /\ p.id \notin {"all", "index"} =>
              gitHubURL = DataBase \o p.branch \o "/src/data/"
                          \o languages[p.language] \o "/" \o Str(p.category)
                          \o "/" \o p.id \o ".json"

C5_Witness ==
    /\ pc = "fetch"
    /\ resolved.value.id = "all"
    /\ resolved.value.language = "japanese"
    /\ gitHubURL = DistBase \o "v4/data/gzips/japanese-artifacts.min.json.gzip"

\* C6: a non-success upstream status gives a 404 plain-text response, with
\* body 'Category name not found' for id all and 'File not found' for any
\* other id, no help payload, and no decoding of the upstream body.
C6_UpstreamNotFound ==
    (pc = "done" /\ upstream = "notok") =>
        /\ response.status = 404
        /\ response.kind = "text"
        /\ response.text = (IF resolved.value.id = "all"
                            THEN "Category name not found" ELSE "File not found")
        /\ response.help = ""
        /\ response.error = ""
        /\ decodes = 0
        /\ caught = NoError

C6_Witness ==
    /\ pc = "done"
    /\ upstream = "notok"
    /\ resolved.value.id = "all"
    /\ response.status = 404
    /\ response.text = "Category name not found"

\* C7: once resolution has succeeded, a failure of the relay step (fetch
\* rejecting, body read or gunzip failing, invalid JSON) ends the handler
\* with a 500 response whose body is {error: 'Error: <message>', help} and
\* nothing else.
C7_RelayFailure ==
    /\ (pc = "done" /\ Resolved /\ caught # NoError) =>
          /\ response = Resp(500, headers, "json2", "",
                             "Error: " \o caught.message, "notFoundData", "")
          /\ unhandled = NoError
    /\ (pc = "done" /\ Resolved /\ response.status = 200) => caught = NoError
    /\ (pc = "done" /\ upstream = "rejected") => caught # NoError

C7_Witness ==
    /\ pc = "done"
    /\ Resolved
    /\ decodes = 1
    /\ caught = NewError("Error", "incorrect header check")
    /\ response.status = 500
    /\ response.error = "Error: incorrect header check"

\* the request's content-type header indicates HTML
WantsHtml == request.contentType # Null /\ includes(request.contentType, "/html")

\* C8: the root path is answered with the help payload, without resolution
\* and without an upstream fetch: the HTML listing as text/html when the
\* content-type header indicates HTML, else the help data as indented JSON
\* with application/json.
C8_RootHelp ==
    (pc = "done" /\ request.pathname = "/") =>
        /\ ~resolved.ran
        /\ fetches = 0
        /\ decodes = 0
        /\ unhandled = NoError
        /\ WantsHtml =>
              response = Resp(200, "text/html", "text", "helpHtml", "", "", "")
        /\ ~WantsHtml =>
              response = Resp(200, "application/json", "json2", "", "", "",
                              "notFoundData")

C8_Witness ==
    /\ pc = "done"
    /\ request.pathname = "/"
    /\ request.contentType = "text/html; charset=utf-8"
    /\ response.contentType = "text/html"
    /\ response.text = "helpHtml"

\* the path has at least one non-empty segment
HasSegment ==
    \E i \in 1..Len(request.pathname) : CharAt(request.pathname, i) # "/"

\* C9: at most one upstream fetch and at most one decoding step per request;
\* exactly one fetch once resolution has succeeded, none when the path has
\* no non-empty segment or resolution failed; decoding only after the fetch.
C9_SingleFetch ==
    /\ fetches <= 1
    /\ decodes <= 1
    /\ decodes = 1 => (fetches = 1 /\ upstream = "ok")
    /\ (pc # "start" /\ Resolved /\ HasSegment) => fetches = 1
    /\ (pc = "done" /\ (resolved.threw \/ ~HasSegment)) =>
          (fetches = 0 /\ decodes = 0)

C9_Witness ==
    /\ pc = "done"
    /\ HasSegment
    /\ upstream = "rejected"
    /\ fetches = 1
    /\ decodes = 0

\* C10: for a path with at least one non-empty segment the final validation
\* of parseURL never fails: InvalidURLError('Invalid Language') is never
\* raised.
C10_InvalidLanguageUnreachable ==
    (resolved.ran /\ Len(Segs) >= 1) =>
        ~(resolved.threw /\ resolved.error.message = "Invalid Language")

====
